---- MODULE Spec2Model ----
(***************************************************************************)
(* AutoCapPPT: image extraction, context assembly and captioning of a      *)
(* slide deck (src/main.py), and the web form's session handling           *)
(* (src/ui.py).                                                            *)
(*                                                                         *)
(* A Python str is a sequence of one-character strings; a literal of the   *)
(* program that is never split ("Slide Content:", "INVALID", "---", a file *)
(* extension, a shape name) is one element.  A slide number or a running   *)
(* index inside a file name is the decimal text ToString gives.            *)
(***************************************************************************)
EXTENDS Integers, Sequences, FiniteSets, TLC

(***************************************************************************)
(* str helpers                                                             *)
(***************************************************************************)
NL == "\n"
SP == " "

\* str.isspace() of one character, for the characters the model draws.
IsSpace(c) == c \in {SP, NL}

RECURSIVE lstrip(_)
lstrip(s) == IF s # <<>> /\ IsSpace(Head(s)) THEN lstrip(Tail(s)) ELSE s

RECURSIVE rstrip(_)
rstrip(s) ==
    IF s # <<>> /\ IsSpace(s[Len(s)]) THEN rstrip(SubSeq(s, 1, Len(s) - 1)) ELSE s

\* str.strip()
strip(s) == rstrip(lstrip(s))

\* sep.join(parts)
RECURSIVE join(_, _)
join(sep, parts) ==
    IF parts = <<>> THEN <<>>
    ELSE IF Len(parts) = 1 THEN parts[1]
    ELSE parts[1] \o sep \o join(sep, Tail(parts))

\* str.splitlines(): the lines without their line breaks; a trailing line
\* break opens no further line, and "" has no lines.
RECURSIVE splitlines(_)
splitlines(s) ==
    IF s = <<>> THEN <<>>
    ELSE LET brk == {k \in 1..Len(s) : s[k] = NL} IN
         IF brk = {} THEN <<s>>
         ELSE LET k == CHOOSE x \in brk : \A y \in brk : x <= y IN
              <<SubSeq(s, 1, k - 1)>> \o splitlines(SubSeq(s, k + 1, Len(s)))

\* str.startswith(prefix)
startswith(s, prefix) ==
    Len(s) >= Len(prefix) /\ SubSeq(s, 1, Len(prefix)) = prefix

(***************************************************************************)
(* Lengths (EMU)                                                           *)
(***************************************************************************)
EMU_PER_CM == 360000
EMU_PER_INCH == 914400

\* process_file: TOP_MARGIN_THRESHOLD = 1 * 360000
TOP_MARGIN_THRESHOLD == 1 * EMU_PER_CM

\* pptx.util.Inches(x) = int(x * 914400), for the tenths of an inch used
Inches(tenths) == (tenths * EMU_PER_INCH) \div 10

(***************************************************************************)
(* The deck: python-pptx's Presentation, slides and shapes                 *)
(***************************************************************************)
\* A shape.  type is the MSO_SHAPE_TYPE tag; img is what reading shape.image
\* gives: "none" (the shape has no such attribute), "ok" (an image with blob
\* and ext) or "bad" (the read raises); hasText is hasattr(shape, "text").
Shape(type, name, top, height, img, ext, hasText, text, shapes) ==
    [type |-> type, name |-> name, top |-> top, height |-> height, img |-> img,
     ext |-> ext, hasText |-> hasText, text |-> text, shapes |-> shapes]

LowTop == TOP_MARGIN_THRESHOLD - 1
EdgeTop == TOP_MARGIN_THRESHOLD
HighTop == EMU_PER_INCH

Pic(name, top, img, ext) ==
    Shape("PICTURE", name, top, EMU_PER_INCH, img, ext, FALSE, <<>>, <<>>)
Grp(name, shapes) ==
    Shape("GROUP", name, HighTop, EMU_PER_INCH, "none", "", FALSE, <<>>, shapes)
Txt(name, text) ==
    Shape("TEXT_BOX", name, LowTop, EMU_PER_INCH, "none", "", TRUE, text, <<>>)
\* A chart, SmartArt frame or picture placeholder: neither GROUP nor PICTURE.
Oth(name, top, img, ext) ==
    Shape("PLACEHOLDER", name, top, EMU_PER_INCH, img, ext, FALSE, <<>>, <<>>)

\* The slides a deck is drawn from.
TitleLayout ==
    <<Pic("Logo", HighTop, "ok", "png"), Txt("Title", <<"t">>)>>
TextLayout ==
    <<Txt("Body", <<SP, "a", NL>>)>>
PictureLayout ==
    <<Pic("Photo", HighTop, "ok", "png"), Txt("Note", <<"b">>)>>
GroupLayout ==
    <<Grp("Pair", <<Pic("Header", LowTop, "ok", "png"),
                    Pic("Figure", EdgeTop, "ok", "jpg")>>)>>
BrokenLayout ==
    <<Pic("Broken", HighTop, "bad", "png"),
      Grp("Outer", <<Pic("Torn", HighTop, "bad", "jpg"),
                     Grp("Inner", <<Pic("Deep", HighTop, "ok", "png")>>),
                     Oth("Chart", HighTop, "ok", "png")>>)>>
SilentLayout ==
    <<Oth("Frame", HighTop, "bad", "png"), Pic("Icon", LowTop, "ok", "png"),
      Oth("Table", HighTop, "none", "")>>
EmptyLayout == <<>>

Layouts ==
    {TitleLayout, TextLayout, PictureLayout, GroupLayout, BrokenLayout,
     SilentLayout, EmptyLayout}

MaxSlides == 3

\* Presentation(path).slides for every deck of at most MaxSlides slides.
Decks ==
    UNION {[1..n -> [shapes : Layouts]] : n \in 1..MaxSlides}

\* The base name of the deck file, os.path.splitext(os.path.basename(path))[0].
NameBases == {<<"deck">>, <<"INVALID", "_", "deck">>}

(***************************************************************************)
(* PowerPointExtractor: the pure parts                                     *)
(***************************************************************************)
\* Python's None where a shape is expected.
None == Shape("None", "", 0, 0, "none", "", FALSE, <<>>, <<>>)

\* A path os.path.join(dir, file), dir being the directory's components
\* (<<".">> for the working directory); os.path.basename gives back file.
Path(dir, file) == [dir |-> dir, file |-> file]

\* PowerPointExtractor.__init__; files, printed and walked stand for the
\* image directory's content, what save_image prints (the name, with the
\* index used and the shape whose image it is) and the shapes
\* drill_for_images was called on.
NewExtractor(ppt_path, image_output_dir) ==
    [ppt_path |-> ppt_path, image_output_dir |-> image_output_dir,
     cur_image_index |-> 0, invalid_images |-> <<>>,
     files |-> {}, printed |-> <<>>, walked |-> <<>>]

\* save_image without its "self.cur_image_index += 1".
save_image_no_increment(self, image, name) ==
    LET file == name.file \o <<"_", ToString(self.cur_image_index), ".", image.ext>>
    IN [self |-> [self EXCEPT !.files = @ \cup {Path(name.dir, file)},
                              !.printed = Append(@, [file |-> file,
                                                     index |-> self.cur_image_index,
                                                     shape |-> image])],
        ret |-> file]

\* save_image: the file is written under the running index, and only then is
\* the index incremented; ret is the returned base name.
save_image(self, image, name) ==
    LET file == name.file \o <<"_", ToString(self.cur_image_index), ".", image.ext>>
    IN [self |-> [self EXCEPT !.files = @ \cup {Path(name.dir, file)},
                              !.printed = Append(@, [file |-> file,
                                                     index |-> self.cur_image_index,
                                                     shape |-> image]),
                              !.cur_image_index = @ + 1],
        ret |-> file]

\* One record of drill_for_images' result: (file name or sentinel, shape).
ImageTuple(image_file, shape) == [image_file |-> image_file, shape |-> shape]

RECURSIVE drill_for_images(_, _, _, _)
RECURSIVE DrillChildren(_, _, _, _)

\* Case 1 of drill_for_images: for s in shape.shapes, in child order.
DrillChildren(self, shapes, slide_idx, name) ==
    IF shapes = <<>> THEN [self |-> self, image_tuples |-> <<>>]
    ELSE LET first == drill_for_images(self, Head(shapes), slide_idx, name)
             rest == DrillChildren(first.self, Tail(shapes), slide_idx, name)
         IN [self |-> rest.self,
             image_tuples |-> first.image_tuples \o rest.image_tuples]

\* Case 2 handled as case 3 is: a failure leaves no entry and no sentinel.
DrillPictureSilent(self, shape, slide_idx, name) ==
    IF shape.img = "ok"
    THEN LET saved == save_image(self, shape, name)
         IN [self |-> saved.self,
             image_tuples |-> <<ImageTuple(saved.ret, shape)>>]
    ELSE [self |-> self, image_tuples |-> <<>>]

\* Case 2 of drill_for_images, a PICTURE: save it, or on any exception record
\* the shape as invalid and return the sentinel.
DrillPicture(self, shape, slide_idx, name) ==
    IF shape.img = "ok"
    THEN LET saved == save_image(self, shape, name)
         IN [self |-> saved.self,
             image_tuples |-> <<ImageTuple(saved.ret, shape)>>]
    ELSE [self |-> [self EXCEPT !.invalid_images =
                        Append(@, <<"Slide ", ToString(slide_idx), ": ", shape.name>>)],
          image_tuples |-> <<ImageTuple(<<"INVALID", ": ", shape.name>>, None)>>]

\* Case 3 of drill_for_images, any other shape: save shape.image when the
\* shape has one; an exception is swallowed without a trace.
DrillOther(self, shape, slide_idx, name) ==
    IF shape.img = "ok"
    THEN LET saved == save_image(self, shape, name)
         IN [self |-> saved.self,
             image_tuples |-> <<ImageTuple(saved.ret, shape)>>]
    ELSE [self |-> self, image_tuples |-> <<>>]

drill_for_images(self, shape, slide_idx, name) ==
    LET me == [self EXCEPT !.walked = Append(@, <<slide_idx, shape.name>>)]
    IN IF shape.type = "GROUP"
       THEN DrillChildren(me, shape.shapes, slide_idx, name)
       ELSE IF shape.type = "PICTURE"
       THEN DrillPicture(me, shape, slide_idx, name)
       ELSE DrillOther(me, shape, slide_idx, name)

\* [shape.text.strip() for shape in slide.shapes
\*      if hasattr(shape, "text") and shape.text.strip()]
RECURSIVE ShapeTexts(_)
ShapeTexts(shapes) ==
    IF shapes = <<>> THEN <<>>
    ELSE (IF Head(shapes).hasText /\ strip(Head(shapes).text) # <<>>
          THEN <<strip(Head(shapes).text)>> ELSE <<>>) \o ShapeTexts(Tail(shapes))

get_slide_text(slide) ==
    LET text == join(<<NL>>, ShapeTexts(slide.shapes))
    IN join(<<NL>>, SelectSeq(splitlines(text), LAMBDA line : strip(line) # <<>>))

\* The neighbour loop without its "if neighbor_slide_text.strip()".
RECURSIVE NeighborTextsUnfiltered(_, _, _, _)
NeighborTextsUnfiltered(slides, current_index, from, window) ==
    IF from > window THEN <<>>
    ELSE LET idx == current_index + from
             here == IF idx = current_index \/ ~(0 <= idx /\ idx < Len(slides))
                     THEN <<>>
                     ELSE <<get_slide_text(slides[idx + 1])>>
         IN here \o NeighborTextsUnfiltered(slides, current_index, from + 1, window)

\* The loop of get_context_text over offset = from .. window.
RECURSIVE NeighborTexts(_, _, _, _)
NeighborTexts(slides, current_index, from, window) ==
    IF from > window THEN <<>>
    ELSE LET idx == current_index + from
             here == IF idx = current_index \/ ~(0 <= idx /\ idx < Len(slides))
                     THEN <<>>
                     ELSE IF strip(get_slide_text(slides[idx + 1])) # <<>>
                     THEN <<get_slide_text(slides[idx + 1])>>
                     ELSE <<>>
         IN here \o NeighborTexts(slides, current_index, from + 1, window)

SlideContentLabel == "Slide Content:"
RelatedHintsLabel == "Related Slide Hints:"
HintDelimiter == <<NL, NL, "---", NL, NL>>

\* slides is 0-indexed in the program: slides[i] is slides[i + 1] here.
get_context_text(slides, current_index, window) ==
    LET main_slide_text == get_slide_text(slides[current_index + 1])
        first_part == <<SlideContentLabel, NL>> \o strip(main_slide_text)
        neighbor_texts == NeighborTexts(slides, current_index, -window, window)
        context_parts ==
            IF neighbor_texts # <<>>
            THEN <<first_part,
                   <<NL, NL, RelatedHintsLabel, NL>> \o join(HintDelimiter, neighbor_texts)>>
            ELSE <<first_part>>
    IN join(<<NL, NL>>, context_parts)

\* What the captioning service does with one request.
ServiceOutcomes == {"caption", "no_field", "unreachable", "not_json"}
NoCaptionGenerated == <<"[No caption generated]">>
ModelCaption == <<"c">>

\* generate_llava_caption: requests.post raises when the service cannot be
\* reached, response.json() raises on a body that is not JSON, and
\* result.get("response", ...) falls back to the placeholder.
generate_llava_caption(outcome) ==
    IF outcome = "caption" THEN [raised |-> FALSE, caption |-> ModelCaption]
    ELSE IF outcome = "no_field" THEN [raised |-> FALSE, caption |-> NoCaptionGenerated]
    ELSE [raised |-> TRUE, caption |-> <<>>]

\* add_caption_to_slide: slide.shapes.add_textbox below the image; the new
\* shape goes last and no other shape changes.
add_caption_to_slide(slide, caption_text, image_shape) ==
    [slide EXCEPT !.shapes = Append(@,
        Shape("TEXT_BOX", "TextBox", image_shape.top + image_shape.height + Inches(1),
              Inches(4), "none", "", TRUE, caption_text, <<>>))]

\* The margin filter with its comparison turned round.
TooCloseToTopInverted(shape) == shape.top > TOP_MARGIN_THRESHOLD

\* The margin filter of process_file.
TooCloseToTop(shape) == shape.top < TOP_MARGIN_THRESHOLD

\* The sentinel test of process_file.
IsInvalidRecord(tuple) ==
    startswith(tuple.image_file, <<"INVALID">>) \/ tuple.shape = None

\* The title-slide test counting slides from 1.
IsTitleSlideFromOne(i) == i = 1

\* if i == 0: continue
IsTitleSlide(i) == i = 0

(***************************************************************************)
(* One command-line run: main() and process_file()                         *)
(***************************************************************************)
VARIABLES
    pc,            \* where the run is
    argv_ext,      \* the extension of --ppt as given
    input_path,    \* main's input_path: [base, ext]
    disk_deck,     \* the slides of the deck file
    converter,     \* the external converter: "idle", "ok" or "failed"
    self,          \* the PowerPointExtractor
    ppt,           \* the opened Presentation's slides (<<>> before it is opened)
    opened,        \* Presentation(path) has returned
    csv_state,     \* the captions CSV: "absent", "open" or "closed"
    csv,           \* its data rows, after the header
    i,             \* the slide loop's 0-based index
    slide_context, \* the current slide's context fragment
    image_tuples,  \* the current slide's records still to handle
    requests,      \* the captioning requests made, with their outcomes
    output_ppt,    \* the slides saved to the captioned deck
    saved,         \* ppt.save(output_ppt) has returned
    jobs,          \* the web form's jobs (concurrent sessions)
    fs             \* per path, the jobs that wrote it

vars ==
    <<pc, argv_ext, input_path, disk_deck, converter, self, ppt, opened,
      csv_state, csv, i, slide_context, image_tuples, requests, output_ppt,
      saved, jobs, fs>>

\* --out's default
DefaultOut == <<"images">>

NoExtractor == NewExtractor([base |-> <<>>, ext |-> ""], <<>>)

\* os.path.splitext(os.path.basename(self.ppt_path))[0]
name_base(ppt_path) == ppt_path.base

\* os.path.join(self.image_output_dir, f'{name_base}_slide{i+1}')
image_name_part(ext_self, idx) ==
    Path(ext_self.image_output_dir,
         name_base(ext_self.ppt_path) \o <<"_slide", ToString(idx + 1)>>)

\* f'{name_base}_captions.csv' and f'{name_base}_captioned.pptx': relative
\* paths, resolved against the process's working directory.
out_csv_path(ppt_path) == Path(<<".">>, name_base(ppt_path) \o <<"_captions.csv">>)
output_ppt_path(ppt_path) == Path(<<".">>, name_base(ppt_path) \o <<"_captioned.pptx">>)

\* for shape in slide.shapes: image_tuples.extend(self.drill_for_images(...))
SlideImageTuples(ext_self, slide, idx) ==
    DrillChildren(ext_self, slide.shapes, idx + 1, image_name_part(ext_self, idx))

\* subprocess.run without check=True: the exit status is ignored.
convert_unchecked(exit_ok) == [raised |-> FALSE]

\* convert_ppt_to_pptx: subprocess.run(..., check=True) raises
\* CalledProcessError unless the converter exits with status 0.
convert_ppt_to_pptx(exit_ok) == [raised |-> ~exit_ok]

\* input_path.lower().endswith('.ppt')
IsLegacy(path) == path.ext = "ppt"

Init ==
    /\ pc = "main"
    /\ argv_ext \in {"ppt", "pptx"}
    /\ \E base \in NameBases : input_path = [base |-> base, ext |-> argv_ext]
    /\ disk_deck \in Decks
    /\ converter = "idle"
    /\ self = NoExtractor
    /\ ppt = <<>>
    /\ opened = FALSE
    /\ csv_state = "absent"
    /\ csv = <<>>
    /\ i = 0
    /\ slide_context = <<>>
    /\ image_tuples = <<>>
    /\ requests = <<>>
    /\ output_ppt = <<>>
    /\ saved = FALSE
    /\ jobs = <<>>
    /\ fs = <<>>

RunVars == <<jobs, fs, argv_ext, disk_deck>>

\* main(): the existence check, the conversion of a legacy file, and the
\* construction of the extractor.
Main ==
    /\ pc = "main"
    /\ \E exists \in BOOLEAN, exit_ok \in BOOLEAN :
        \/ /\ ~exists
           /\ pc' = "done"
           /\ UNCHANGED <<input_path, converter, self>>
        \/ /\ exists
           /\ IsLegacy(input_path)
           /\ converter' = (IF exit_ok THEN "ok" ELSE "failed")
           /\ IF ~convert_ppt_to_pptx(exit_ok).raised
              THEN /\ input_path' = [input_path EXCEPT !.ext = "pptx"]
                   /\ self' = NewExtractor(input_path', DefaultOut)
                   /\ pc' = "process_file"
              ELSE /\ pc' = "failed"
                   /\ UNCHANGED <<input_path, self>>
        \/ /\ exists
           /\ ~IsLegacy(input_path)
           /\ self' = NewExtractor(input_path, DefaultOut)
           /\ pc' = "process_file"
           /\ UNCHANGED <<input_path, converter>>
    /\ UNCHANGED <<ppt, opened, csv_state, csv, i, slide_context, image_tuples,
                   requests, output_ppt, saved, RunVars>>

\* process_file up to the slide loop: open the deck (which raises on a file
\* that is no presentation), then create the CSV and write its header.
OpenDeck ==
    /\ pc = "process_file"
    /\ \E readable \in BOOLEAN :
        IF readable
        THEN /\ ppt' = disk_deck
             /\ opened' = TRUE
             /\ csv_state' = "open"
             /\ i' = 0
             /\ pc' = "slides"
        ELSE /\ pc' = "failed"
             /\ UNCHANGED <<ppt, opened, csv_state, i>>
    /\ UNCHANGED <<input_path, converter, self, csv, slide_context, image_tuples,
                   requests, output_ppt, saved, RunVars>>

\* The slide loop at the title slide: continue.
SkipTitleSlide ==
    /\ pc = "slides"
    /\ i < Len(ppt)
    /\ IsTitleSlide(i)
    /\ i' = i + 1
    /\ UNCHANGED <<pc, input_path, converter, self, ppt, opened, csv_state, csv,
                   slide_context, image_tuples, requests, output_ppt, saved, RunVars>>

\* The slide loop at any other slide: build the context, then walk every
\* top-level shape for images.
WalkSlide ==
    /\ pc = "slides"
    /\ i < Len(ppt)
    /\ ~IsTitleSlide(i)
    /\ slide_context' = get_context_text(ppt, i, 1)
    /\ LET walk == SlideImageTuples(self, ppt[i + 1], i)
       IN /\ self' = walk.self
          /\ image_tuples' = walk.image_tuples
    /\ pc' = "images"
    /\ UNCHANGED <<input_path, converter, ppt, opened, csv_state, csv, i,
                   requests, output_ppt, saved, RunVars>>

\* One pass of "for image_file, shape in image_tuples".
ProcessImage ==
    /\ pc = "images"
    /\ image_tuples # <<>>
    /\ LET tuple == Head(image_tuples)
           full_image_path == Path(self.image_output_dir, tuple.image_file)
       IN \/ /\ IsInvalidRecord(tuple)
             /\ UNCHANGED <<pc, ppt, csv, csv_state, requests>>
          \/ /\ ~IsInvalidRecord(tuple)
             /\ TooCloseToTop(tuple.shape)
             /\ UNCHANGED <<pc, ppt, csv, csv_state, requests>>
          \/ /\ ~IsInvalidRecord(tuple)
             /\ ~TooCloseToTop(tuple.shape)
             /\ \E outcome \in ServiceOutcomes :
                 LET reply == generate_llava_caption(outcome)
                 IN /\ requests' = Append(requests,
                            [slide |-> i + 1, image |-> full_image_path,
                             shape |-> tuple.shape, outcome |-> outcome])
                    /\ IF reply.raised
                       THEN /\ pc' = "failed"
                            /\ csv_state' = "closed"
                            /\ UNCHANGED <<ppt, csv>>
                       ELSE /\ ppt' = [ppt EXCEPT ![i + 1] =
                                  add_caption_to_slide(@, reply.caption, tuple.shape)]
                            /\ csv' = Append(csv,
                                  [Slide |-> i + 1, Context |-> slide_context,
                                   Image |-> tuple.image_file,
                                   Caption |-> reply.caption])
                            /\ UNCHANGED <<pc, csv_state>>
    /\ image_tuples' = Tail(image_tuples)
    /\ UNCHANGED <<input_path, converter, self, opened, i, slide_context,
                   output_ppt, saved, RunVars>>

\* The records of one slide are done: on to the next slide.
NextSlide ==
    /\ pc = "images"
    /\ image_tuples = <<>>
    /\ i' = i + 1
    /\ pc' = "slides"
    /\ UNCHANGED <<input_path, converter, self, ppt, opened, csv_state, csv,
                   slide_context, image_tuples, requests, output_ppt, saved, RunVars>>

\* After the loop: the CSV is closed and the deck saved under the new name.
SaveDeck ==
    /\ pc = "slides"
    /\ i >= Len(ppt)
    /\ csv_state' = "closed"
    /\ output_ppt' = ppt
    /\ saved' = TRUE
    /\ pc' = "done"
    /\ UNCHANGED <<input_path, converter, self, ppt, opened, csv, i,
                   slide_context, image_tuples, requests, RunVars>>

Next ==
    \/ Main
    \/ OpenDeck
    \/ SkipTitleSlide
    \/ WalkSlide
    \/ ProcessImage
    \/ NextSlide
    \/ SaveDeck

Spec == Init /\ [][Next]_vars

(***************************************************************************)
(* What the claims speak of                                                *)
(***************************************************************************)
Range(sq) == {sq[k] : k \in DOMAIN sq}

\* Every shape under a list of shapes, parents before children (pre-order).
RECURSIVE Flatten(_)
Flatten(shapes) ==
    IF shapes = <<>> THEN <<>>
    ELSE <<Head(shapes)>> \o Flatten(Head(shapes).shapes) \o Flatten(Tail(shapes))

\* The shapes of a slide whose image can be extracted, and its PICTURE
\* shapes whose image cannot.
ExtractableShapes(slide) ==
    SelectSeq(Flatten(slide.shapes), LAMBDA sh : sh.type # "GROUP" /\ sh.img = "ok")
BrokenPictures(slide) ==
    SelectSeq(Flatten(slide.shapes), LAMBDA sh : sh.type = "PICTURE" /\ sh.img # "ok")

\* The text boxes slide number n has gained since the deck was opened.
AddedBoxes(n) ==
    IF opened /\ n \in DOMAIN ppt
    THEN SubSeq(ppt[n].shapes, Len(disk_deck[n].shapes) + 1, Len(ppt[n].shapes))
    ELSE <<>>

\* The top of the caption box add_caption_to_slide puts under a shape.
BoxTopUnder(shape) == shape.top + shape.height + Inches(1)

\* The file names of slide number n's images begin with this.
SlidePrefix(n) == name_base(self.ppt_path) \o <<"_slide", ToString(n), "_">>

\* Slide index s (0-based) has been walked for images.
SlideWalked(s) ==
    /\ opened
    /\ s >= 1
    /\ s < Len(ppt)
    /\ s < i \/ (s = i /\ pc \in {"images", "failed"})

\* C1: the slide at index 0 is never walked for images, never gets a caption
\* text box, and never is the Slide of a CSV row, whatever shapes it holds.
TitleSlideNeverProcessed ==
    /\ \A k \in DOMAIN self.walked : self.walked[k][1] # 1
    /\ \A f \in self.files : ~startswith(f.file, SlidePrefix(1))
    /\ \A k \in DOMAIN requests : requests[k].slide # 1
    /\ \A k \in DOMAIN csv : csv[k].Slide # 1
    /\ opened => ppt[1] = disk_deck[1]
    /\ saved => output_ppt[1] = disk_deck[1]

\* C1's case: a finished run on a deck whose first slide holds an
\* extractable picture, and whose later slides gave CSV rows.
TitleSlideWitness ==
    /\ pc = "done"
    /\ saved
    /\ disk_deck[1].shapes = PictureLayout
    /\ csv # <<>>

\* C2: the running index in the saved file names is strictly increasing in
\* extraction order, and no two saved images share an index or a file name,
\* across groups, slides and failed extractions.
RunningIndexStrictlyIncreasing ==
    /\ \A a, b \in DOMAIN self.printed :
          a < b => self.printed[a].index < self.printed[b].index
    /\ \A a, b \in DOMAIN self.printed :
          a # b => self.printed[a].file # self.printed[b].file
    /\ Cardinality(self.files) = Len(self.printed)

\* C2's case: an image inside a nested group is saved after a failed PICTURE
\* and a failed other shape came before, and a later slide's image after it.
RunningIndexWitness ==
    /\ self.invalid_images # <<>>
    /\ \E a, b, c \in DOMAIN self.printed :
          /\ a < b /\ b < c
          /\ self.printed[a].shape.name = "Icon"
          /\ self.printed[b].shape.name = "Deep"
          /\ self.printed[c].shape.name = "Chart"

\* No caption was requested for a saved image, no row logged for it and no
\* text box put under it.
NotCaptioned(p) ==
    /\ \A k \in DOMAIN requests : requests[k].image.file # p.file
    /\ \A k \in DOMAIN csv : csv[k].Image # p.file
    /\ \A n \in DOMAIN ppt : \A k \in DOMAIN AddedBoxes(n) :
          startswith(p.file, SlidePrefix(n)) => AddedBoxes(n)[k].top # BoxTopUnder(p.shape)

\* C3 as stated: a saved image whose top is less than 1 inch (914,400 EMU)
\* is never captioned, annotated or logged.
BelowOneInchNeverCaptioned ==
    \A k \in DOMAIN self.printed :
        self.printed[k].shape.top < EMU_PER_INCH => NotCaptioned(self.printed[k])

\* C3, amended: a saved image whose top is less than the threshold of the
\* code, 1 cm (360,000 EMU), is never captioned, annotated or logged.
BelowMarginNeverCaptioned ==
    \A k \in DOMAIN self.printed :
        self.printed[k].shape.top < 360000 => NotCaptioned(self.printed[k])

\* C3's case: a finished run that saved an image above the margin line and
\* captioned another image of the same slide.
BelowMarginWitness ==
    /\ pc = "done"
    /\ \E a, b \in DOMAIN self.printed :
          /\ self.printed[a].shape.name = "Header"
          /\ self.printed[b].shape.name = "Figure"
          /\ \E k \in DOMAIN csv : csv[k].Image = self.printed[b].file

\* C4: a captioning-service failure for an image gives that image the
\* placeholder caption and a CSV row, and never fails the run.
CaptionFailureNeverAborts ==
    \A k \in DOMAIN requests :
        requests[k].outcome # "caption" =>
            /\ pc # "failed"
            /\ \E r \in DOMAIN csv :
                  /\ csv[r].Image = requests[k].image.file
                  /\ csv[r].Caption = NoCaptionGenerated

\* C7 (state part): once a slide is walked, every shape of it was walked
\* once, every extractable one was saved once, and every PICTURE that could
\* not be extracted has exactly one invalid-image entry, with its name and
\* slide number, and no caption, row or saved file.
WalkedSlideComplete(s) ==
    LET slide == disk_deck[s + 1]
        n == s + 1
    IN /\ \A sh \in Range(Flatten(slide.shapes)) :
             Cardinality({k \in DOMAIN self.walked :
                             self.walked[k] = <<n, sh.name>>}) = 1
       /\ \A sh \in Range(ExtractableShapes(slide)) :
             Cardinality({k \in DOMAIN self.printed :
                             /\ self.printed[k].shape = sh
                             /\ startswith(self.printed[k].file, SlidePrefix(n))}) = 1
       /\ \A sh \in Range(BrokenPictures(slide)) :
             /\ Cardinality({k \in DOMAIN self.invalid_images :
                                self.invalid_images[k] =
                                    <<"Slide ", ToString(n), ": ", sh.name>>}) = 1
             /\ \A k \in DOMAIN self.printed :
                   startswith(self.printed[k].file, SlidePrefix(n))
                       => self.printed[k].shape # sh
             /\ \A k \in DOMAIN requests :
                   requests[k].slide = n => requests[k].shape # sh
       /\ Cardinality({k \in DOMAIN self.invalid_images :
                          SubSeq(self.invalid_images[k], 1, 2) = <<"Slide ", ToString(n)>>})
             = Len(BrokenPictures(slide))

\* C7 (step part): the walk of a slide hands over one success record per
\* extractable shape and one sentinel record, without a shape, per PICTURE
\* that could not be extracted; the step that meets a sentinel captions
\* nothing, logs nothing and goes on.
WalkHandsOver ==
    (pc = "slides" /\ pc' = "images") =>
        LET slide == disk_deck[i + 1]
        IN /\ \A sh \in Range(BrokenPictures(slide)) :
                 Cardinality({k \in DOMAIN image_tuples' :
                                 image_tuples'[k] =
                                     ImageTuple(<<"INVALID", ": ", sh.name>>, None)}) = 1
           /\ \A sh \in Range(ExtractableShapes(slide)) :
                 Cardinality({k \in DOMAIN image_tuples' :
                                 image_tuples'[k].shape = sh}) = 1
           /\ Len(image_tuples') =
                 Len(BrokenPictures(slide)) + Len(ExtractableShapes(slide))
SentinelSkipped ==
    (pc = "images" /\ image_tuples # <<>> /\ Head(image_tuples).shape = None) =>
        /\ pc' = "images"
        /\ image_tuples' = Tail(image_tuples)
        /\ UNCHANGED <<requests, csv, ppt, self>>

\* C7: a PICTURE whose extraction fails raises nothing and stops nothing:
\* every other shape of the slide is still walked and, if extractable, saved
\* and handed to the record loop; the failure leaves exactly one sentinel
\* record, which that loop skips, and exactly one invalid-image entry.
ExtractionFailureIsLocal ==
    /\ [](\A s \in 0..MaxSlides : SlideWalked(s) => WalkedSlideComplete(s))
    /\ [][WalkHandsOver /\ SentinelSkipped]_vars

\* C7's case: a slide with two failing PICTURE shapes, one of them the first
\* child of a group, was walked, and the later child of that group, inside
\* a nested group, was saved and captioned.
ExtractionFailureWitness ==
    /\ Len(self.invalid_images) = 2
    /\ \E k \in DOMAIN requests : requests[k].shape.name = "Deep"
    /\ \E k \in DOMAIN csv, p \in DOMAIN self.printed :
          /\ self.printed[p].shape.name = "Chart"
          /\ csv[k].Image = self.printed[p].file

\* The shapes of the non-title slides whose image can be extracted, slide by
\* slide and in pre-order, from slide number n on.
RECURSIVE ExtractableFrom(_, _)
ExtractableFrom(deck, n) ==
    IF n > Len(deck) THEN <<>>
    ELSE ExtractableShapes(deck[n]) \o ExtractableFrom(deck, n + 1)

\* Those of them that pass the margin filter.
EligibleShapes(deck) ==
    SelectSeq(ExtractableFrom(deck, 2), LAMBDA sh : ~(sh.top < TOP_MARGIN_THRESHOLD))

RECURSIVE CountBoxes(_)
CountBoxes(n) == IF n = 0 THEN 0 ELSE Len(AddedBoxes(n)) + CountBoxes(n - 1)

\* The shape a CSV row's image file was extracted from.
ShapeOfFile(file) ==
    LET hits == {k \in DOMAIN self.printed : self.printed[k].file = file}
    IN IF hits = {} THEN None ELSE self.printed[CHOOSE k \in hits : TRUE].shape

RunCounts ==
    /\ Len(csv) = CountBoxes(Len(ppt))
    /\ Len(csv) = Len(EligibleShapes(disk_deck))
    /\ Cardinality(self.files) = Len(ExtractableFrom(disk_deck, 2))
    /\ [k \in DOMAIN csv |-> ShapeOfFile(csv[k].Image)] = EligibleShapes(disk_deck)

\* C8: after a completed run, CSV data rows = added text boxes = extracted
\* images of the non-title slides that pass the margin filter; saved files =
\* all extracted images of the non-title slides; rows are in extraction
\* order.
CompletedRunCounts == (pc = "done" /\ saved) => RunCounts

\* C8 holds of every completed run on a deck whose file name does not begin
\* with the sentinel marker.
CompletedRunCountsUnlessMarkerName ==
    (pc = "done" /\ saved /\ ~startswith(name_base(self.ppt_path), <<"INVALID">>))
        => RunCounts

\* The 3-slide scenario: 2 rows, 2 text boxes, 3 files.
ScenarioWitness ==
    /\ pc = "done" /\ saved
    /\ Len(disk_deck) = 3
    /\ disk_deck[2].shapes = PictureLayout
    /\ disk_deck[3].shapes = GroupLayout
    /\ Len(csv) = 2
    /\ CountBoxes(3) = 2
    /\ Cardinality(self.files) = 3

\* C9: a legacy .ppt deck is opened only after the converter has exited
\* successfully; when the converter fails the run has failed, with no deck
\* opened, no image saved, no CSV written and no output deck saved.
ConvertBeforeOpen ==
    /\ (argv_ext = "ppt" /\ (opened \/ pc \in {"process_file", "slides", "images"}))
          => converter = "ok"
    /\ converter = "failed" =>
          /\ pc = "failed"
          /\ ~opened
          /\ ppt = <<>>
          /\ self.files = {}
          /\ csv_state = "absent"
          /\ ~saved

\* C9's case: the converter was run on a legacy deck and failed.
ConvertFailedWitness ==
    /\ argv_ext = "ppt"
    /\ converter = "failed"
    /\ pc = "failed"

\* C9's other case: the converter succeeded and the converted deck was
\* processed to the end.
ConvertOkWitness ==
    /\ argv_ext = "ppt"
    /\ converter = "ok"
    /\ saved
    /\ csv # <<>>

\* C10: every context fragment of a run is the one get_context_text gives on
\* the unmodified input deck, also in every CSV row.
ContextFromInputDeckOnly ==
    /\ pc = "images" => slide_context = get_context_text(disk_deck, i, 1)
    /\ \A k \in DOMAIN csv :
          csv[k].Context = get_context_text(disk_deck, csv[k].Slide - 1, 1)

\* The part of C10 the code keeps: all rows of one slide carry the same
\* fragment.
OneContextPerSlide ==
    \A a, b \in DOMAIN csv : csv[a].Slide = csv[b].Slide => csv[a].Context = csv[b].Context

(***************************************************************************)
(* get_context_text alone, over decks of text                              *)
(***************************************************************************)
\* process_file's window=1
Window == 1

MaxTextLen == 2

RECURSIVE StringsUpTo(_)
StringsUpTo(n) ==
    IF n = 0 THEN {<<>>}
    ELSE StringsUpTo(n - 1) \cup
         {Append(t, c) : t \in {u \in StringsUpTo(n - 1) : Len(u) = n - 1},
                         c \in {"a", SP, NL}}

\* Slides of one text shape each, and some of more shapes and longer text.
TextSlides ==
    {[shapes |-> <<Txt("Body", t)>>] : t \in StringsUpTo(MaxTextLen)}
    \cup {[shapes |-> <<Txt("Body", <<"a", NL, NL, "b">>)>>],
          [shapes |-> <<Txt("Body", <<SP, "a", NL, SP, NL, SP, "b", NL>>)>>],
          [shapes |-> <<Txt("Head", <<SP, "h">>), Pic("Photo", HighTop, "ok", "png"),
                        Txt("Blank", <<NL, SP>>), Txt("Foot", <<"f", SP>>)>>],
          [shapes |-> <<Pic("Photo", HighTop, "ok", "png")>>]}

\* Every deck no longer than one slide with its whole window.
TextDecks == UNION {[1..n -> TextSlides] : n \in 1..(2 * Window + 1)}

InitContext ==
    /\ pc = "deck"
    /\ ppt \in TextDecks
    /\ i = 0
    /\ slide_context = <<>>
    /\ argv_ext = "pptx"
    /\ input_path = [base |-> <<"deck">>, ext |-> "pptx"]
    /\ disk_deck = <<>>
    /\ converter = "idle"
    /\ self = NoExtractor
    /\ opened = TRUE
    /\ csv_state = "absent"
    /\ csv = <<>>
    /\ image_tuples = <<>>
    /\ requests = <<>>
    /\ output_ppt = <<>>
    /\ saved = FALSE
    /\ jobs = <<>>
    /\ fs = <<>>

\* slide_context = self.get_context_text(ppt.slides, i, window=1), for any
\* slide index of the deck.
BuildContext ==
    /\ pc = "deck"
    /\ \E idx \in 0..(Len(ppt) - 1) :
          /\ i' = idx
          /\ slide_context' = get_context_text(ppt, idx, Window)
    /\ pc' = "built"
    /\ UNCHANGED <<argv_ext, input_path, disk_deck, converter, self, ppt, opened,
                   csv_state, csv, image_tuples, requests, output_ppt, saved,
                   jobs, fs>>

NextContext == BuildContext

SpecContext == InitContext /\ [][NextContext]_vars

\* The texts of the in-bounds neighbours i-1 and i+1 that are not empty,
\* the earlier slide first.
HintTexts ==
    (IF i - 1 >= 0 /\ get_slide_text(ppt[i]) # <<>>
     THEN <<get_slide_text(ppt[i])>> ELSE <<>>)
    \o (IF i + 1 < Len(ppt) /\ get_slide_text(ppt[i + 2]) # <<>>
        THEN <<get_slide_text(ppt[i + 2])>> ELSE <<>>)

\* C5: the fragment of slide i begins with the 'Slide Content' block holding
\* slide i's own text; it has a 'Related Slide Hints' section exactly when an
\* in-bounds neighbour has text, and the section lists the neighbours that
\* have text, i-1 before i+1, with the delimiter between them.
ContextBlocks ==
    pc = "built" =>
        LET own == <<SlideContentLabel, NL>> \o get_slide_text(ppt[i + 1])
            hints == HintTexts
        IN /\ startswith(slide_context, own)
           /\ (RelatedHintsLabel \in Range(slide_context)) <=> (hints # <<>>)
           /\ hints = <<>> => slide_context = own
           /\ Len(hints) = 1 =>
                 slide_context = own \o <<NL, NL, NL, NL, RelatedHintsLabel, NL>>
                                     \o hints[1]
           /\ Len(hints) = 2 =>
                 slide_context = own \o <<NL, NL, NL, NL, RelatedHintsLabel, NL>>
                                     \o hints[1] \o <<NL, NL, "---", NL, NL>> \o hints[2]

\* C5's case: the middle slide of three, with text before and after it and
\* text of several lines of its own.
ContextBlocksWitness ==
    /\ pc = "built"
    /\ i = 1
    /\ Len(ppt) = 3
    /\ Len(HintTexts) = 2
    /\ get_slide_text(ppt[2]) = <<"a", NL, SP, "b">>
    /\ HintTexts[1] # HintTexts[2]

\* C5's other case: an empty slide between a slide without text and the end
\* of the deck: no hints section.
ContextNoHintsWitness ==
    /\ pc = "built"
    /\ i = 1
    /\ Len(ppt) = 2
    /\ slide_context = <<SlideContentLabel, NL>>

(***************************************************************************)
(* The web form: jobs of several sessions in one server process            *)
(***************************************************************************)
NumJobs == 2
Jobs == 1..NumJobs

\* BASE_SESSION_DIR/<session id>: every session has a uuid4 of its own.
SESSION_DIR(j) == <<"session_data", ToString(j)>>

UploadNames == {"deck", "talk"}
Timestamps == {"20260101_120000", "20260101_120001"}
JobDecks ==
    {<<[shapes |-> TitleLayout], [shapes |-> PictureLayout]>>,
     <<[shapes |-> TitleLayout], [shapes |-> GroupLayout], [shapes |-> BrokenLayout]>>}

NoJob ==
    [pc |-> "form", input_path |-> [base |-> <<>>, ext |-> ""],
     extractor |-> NoExtractor, deck |-> <<>>, i |-> 0]

InitJobs ==
    /\ jobs = [j \in Jobs |-> NoJob]
    /\ fs = {}
    /\ pc = "serving"
    /\ argv_ext = "pptx"
    /\ input_path = [base |-> <<"deck">>, ext |-> "pptx"]
    /\ disk_deck = <<>>
    /\ converter = "idle"
    /\ self = NoExtractor
    /\ ppt = <<>>
    /\ opened = FALSE
    /\ csv_state = "absent"
    /\ csv = <<>>
    /\ i = 0
    /\ slide_context = <<>>
    /\ image_tuples = <<>>
    /\ requests = <<>>
    /\ output_ppt = <<>>
    /\ saved = FALSE

FormVars ==
    <<pc, argv_ext, input_path, disk_deck, converter, self, ppt, opened,
      csv_state, csv, i, slide_context, image_tuples, requests, output_ppt, saved>>

\* Job j writes the file at path.
Written(j, paths) == {[path |-> q, job |-> j] : q \in paths}

\* The upload page: the upload is saved as input_<timestamp>_<name> in the
\* session directory and, when it is a .ppt, converted beside it.
JobUpload(j) ==
    /\ jobs[j].pc = "form"
    /\ \E name \in UploadNames, ts \in Timestamps, ext \in {"ppt", "pptx"},
          deck \in JobDecks, exit_ok \in BOOLEAN :
          LET base == <<"input_", ts, "_", name>>
              uploaded == Path(SESSION_DIR(j), base \o <<".", ext>>)
              converted == Path(SESSION_DIR(j), base \o <<".", "pptx">>)
          IN IF ext = "ppt" /\ convert_ppt_to_pptx(exit_ok).raised
             THEN /\ jobs' = [jobs EXCEPT ![j].pc = "failed"]
                  /\ fs' = fs \cup Written(j, {uploaded})
             ELSE /\ jobs' = [jobs EXCEPT ![j] =
                        [pc |-> "uploaded",
                         input_path |-> [base |-> base, ext |-> "pptx"],
                         extractor |-> NoExtractor, deck |-> deck, i |-> 0]]
                  /\ fs' = fs \cup Written(j, IF ext = "ppt" THEN {uploaded, converted}
                                               ELSE {uploaded})
    /\ UNCHANGED FormVars

\* run_captioning_threaded(input_path, SESSION_DIR): a pool worker builds the
\* extractor on the session directory and runs process_file.
JobSubmit(j) ==
    /\ jobs[j].pc = "uploaded"
    /\ jobs' = [jobs EXCEPT ![j].pc = "process_file",
                            ![j].extractor =
                                NewExtractor(jobs[j].input_path, SESSION_DIR(j))]
    /\ UNCHANGED <<fs, FormVars>>

\* process_file before the loop: the CSV is created and its header written.
JobOpenCsv(j) ==
    /\ jobs[j].pc = "process_file"
    /\ jobs' = [jobs EXCEPT ![j].pc = "slides", ![j].i = 0]
    /\ fs' = fs \cup Written(j, {out_csv_path(jobs[j].extractor.ppt_path)})
    /\ UNCHANGED FormVars

\* One pass of the slide loop: the images of the slide are saved, and its
\* rows go to the CSV already created.
JobSlide(j) ==
    /\ jobs[j].pc = "slides"
    /\ jobs[j].i < Len(jobs[j].deck)
    /\ IF IsTitleSlide(jobs[j].i)
       THEN /\ jobs' = [jobs EXCEPT ![j].i = @ + 1]
            /\ UNCHANGED fs
       ELSE LET walk == SlideImageTuples(jobs[j].extractor,
                                         jobs[j].deck[jobs[j].i + 1], jobs[j].i)
            IN /\ jobs' = [jobs EXCEPT ![j].i = @ + 1, ![j].extractor = walk.self]
               /\ fs' = fs \cup Written(j, walk.self.files)
    /\ UNCHANGED FormVars

\* process_file after the loop: ppt.save(output_ppt).
JobSave(j) ==
    /\ jobs[j].pc = "slides"
    /\ jobs[j].i >= Len(jobs[j].deck)
    /\ jobs' = [jobs EXCEPT ![j].pc = "done"]
    /\ fs' = fs \cup Written(j, {output_ppt_path(jobs[j].extractor.ppt_path)})
    /\ UNCHANGED FormVars

NextJobs ==
    \E j \in Jobs :
        \/ JobUpload(j)
        \/ JobSubmit(j)
        \/ JobOpenCsv(j)
        \/ JobSlide(j)
        \/ JobSave(j)

SpecJobs == InitJobs /\ [][NextJobs]_vars

\* C6: no two jobs write the same path, and every file a job writes lies in
\* that job's session directory.
JobsWriteOnlyTheirSession ==
    /\ \A w \in fs : startswith(w.path.dir, SESSION_DIR(w.job))
    /\ \A v, w \in fs : v.job # w.job => v.path # w.path

\* The first half of C6 alone: no path is written by two jobs.
NoPathWrittenTwice ==
    \A v, w \in fs : v.job # w.job => v.path # w.path

\* What the code keeps of C6: the uploaded deck and the extracted images of
\* a job lie in its session directory.
ImagesInsideSession ==
    \A w \in fs :
        w.path \notin {out_csv_path(jobs[w.job].input_path),
                       output_ppt_path(jobs[w.job].input_path)}
            => startswith(w.path.dir, SESSION_DIR(w.job))

====
